---- MODULE Spec2Model ----
(***************************************************************************)
(* Panic-safe goroutines (package goroutine).                              *)
(*                                                                         *)
(* The model follows src/goroutine.go lines 1-80 (the error-channel        *)
(* variant: Goroutine, New, WithRecover, Go, SetDefaultRecoverFunc,        *)
(* panicSafeRecover) and src/panic_error.go (the two package-level         *)
(* panicError prototypes  and WithValue).                                  *)
(*                                                                         *)
(* A Task is a *Goroutine; a launch is one call of Goroutine.Go with the   *)
(* done channel it allocates,     the goroutine it spawns and the          *)
(* consumer that holds the returned receive-only channel.  The work f and  *)
(* a custom recover function are caller code: their behaviour is chosen    *)
(* nondeterministically, step by step.                                     *)
(*                                                                         *)
(* The struct-channel variant (src/goroutine.go lines 82-178) is the       *)
(* variable sv and the reflection variant (src/routine.go) the variable    *)
(* rv, each with its own specification.                                    *)
(***************************************************************************)
EXTENDS Naturals, Sequences, FiniteSets

VARIABLES
    defaultRecoverFunc, \* the package variable: the handler New captures
    protoValue,         \* the value field of the two *panicError prototypes
    tasks,              \* the constructed *Goroutine objects
    launches,           \* one record per call of the Go method
    escaped,            \* the payload of a panic that left a goroutine
    saved,              \* what a caller got from GetDefaultRecoverFunc
    pending,            \* stores to defaultRecoverFunc not yet in memory
    rendered,           \* the text the last call of Error() returned
    sv,                 \* the struct-channel variant of the package
    rv                  \* the reflection variant of the package

vars == <<defaultRecoverFunc, protoValue, tasks, launches, escaped,
          saved, pending, rendered, sv, rv>>

----------------------------------------------------------------------------
(* Bounds of the model.                                                    *)

\* Number of *Goroutine objects the callers construct.
MaxTasks == 1
\* Number of calls of the Go method.
MaxLaunch == 1
\* Number of operations (send, close) a custom recover function performs
\* on the done channel before it returns or panics.
MaxOps == 1
\* Number of receives a consumer performs on the channel it was handed.
MaxReads == 1
\* Number of stores to defaultRecoverFunc a goroutine has issued that have
\* not reached memory.
MaxPending == 1

\* Inputs of a function and params of a call of the reflection variant's Go.
MaxParams == 1

----------------------------------------------------------------------------
(* Values.                                                                 *)

\* A panic payload is an opaque value: what raised it (src) and, for the
\* panics of caller code, the launch it was raised in (n), so that every
\* panic of the work and of a custom recover function has a payload of its
\* own and a failure can be told from the failure of another launch.
Payload(src, n) == [src |-> src, n |-> n]

\* recover() == nil: no panic is in flight.
NoPanic == Payload("nopanic", 0)

\* panic(v) in the work f of launch l.
FPanic(l) == Payload("f", l)

\* panic(v) in the custom recover function run by launch l.
RfPanic(l) == Payload("rf", l)

\* Payloads of the runtime panics of the channel operations and of a call
\* of a nil func value.
SendOnClosed == Payload("send on closed channel", 0)
CloseOfClosed == Payload("close of closed channel", 0)
NilFuncCall == Payload("nil func call", 0)

\* What recover() returns after panic(nil): nil when the program is built
\* with a Go release before 1.21 or runs with GODEBUG=panicnil=1, and a
\* *runtime.PanicNilError otherwise.  The repository fixes no release.
PanicNilError == Payload("runtime.PanicNilError", 0)
NilPanicRecovered == {NoPanic, PanicNilError}

\* The value field of a panicError that carries no value (nil interface).
NoValue == Payload("novalue", 0)

\* The recover functions: the built-in default, a caller-supplied function
\* and the nil RecoverFunc.
BuiltinRf == "builtin"
CustomRf == "custom"
NilRf == "nil"
Handlers == {BuiltinRf, CustomRf, NilRf}

\* A caller that has not called GetDefaultRecoverFunc holds no result.
NoSaved == "unset"

\* The two package-level prototypes; both are pointers to panicError.
ErrPanicRecovered == "ErrPanicRecovered"
ErrRecoverFuncPanicRecovered == "ErrRecoverFuncPanicRecovered"
Prototypes == {ErrPanicRecovered, ErrRecoverFuncPanicRecovered}

\* done := make(chan error, 1)
DoneCap == 1

\* An error a custom recover function builds itself from the panic value,
\* e.g. fmt.Errorf("%v", v): a fresh value, not one of the prototypes.
OwnError(v) == [ptr |-> "own", value |-> v]

\* A pointer to one of the prototypes: what WithValue returns.
ProtoRef(p) == [ptr |-> p, value |-> NoValue]

\* What an error value reports when it is looked at now: a pointer to a
\* prototype reads that prototype's current value field.
Observe(e) ==
    IF e.ptr \in Prototypes
    THEN [kind |-> e.ptr, value |-> protoValue[e.ptr]]
    ELSE [kind |-> "own", value |-> e.value]

\* What a receive on a closed and drained channel returns.
NilError == [ptr |-> "nilerror", value |-> NoValue]

\* The message field of the two prototypes, panic_error.go lines 7 and 10.
Message(p) ==
    IF p = ErrPanicRecovered
    THEN "panic in goroutine recovered"
    ELSE "panic in recover function of goroutine recovered"

\* A text is a sequence of pieces.  No call of Error() has returned yet.
NoText == <<>>

\* The %v verb of fmt.Sprintf applied to a payload: its text.
Format(v) == <<v.src, v.n>>

----------------------------------------------------------------------------
(* State.                                                                  *)

\* The Goroutine struct.  rf is the stored recover function; the work f
\* is caller code whose outcome is chosen when it runs.
Task(h) == [rf |-> h]

\* A variant of the Go method that runs the work itself and returns done
\* only when the work has returned.
LaunchAfterWork(t) ==
    [g |-> t, pc |-> "deferred", r |-> NoPanic, r2 |-> NoPanic,
     buf |-> <<>>, closed |-> FALSE, recvd |-> <<>>,
     sent |-> <<>>, closeCalls |-> 0, called |-> "none",
     ops |-> 0, rfSends |-> 0, rfEnd |-> "none", fCalls |-> 1,
     fPanicNil |-> FALSE]

\* One call of the Go method on task t.  g, done (buf, closed) and r are
\* the variables of the code; pc is the position of the spawned goroutine;
\* recvd is what the consumer has received so far, each value with what it
\* reported at the time of the receive.  The other fields are history:
\*   sent        the values sent on done, in order
\*   closeCalls  how many times close(done) has been executed
\*   called      the recover function that was invoked ("none" if none)
\*   ops         the sends and closes a custom recover function has done
\*   rfSends     the sends the invoked recover function has completed
\*   rfEnd       how the recover function ended: "return" or "panic"
\*   r2          the payload recovered by panicSafeRecover
\*   fCalls      how many times the work g.f has been called
\*   fPanicNil   the work ended with panic(nil)
Launch(t) ==
    [g |-> t, pc |-> "f", r |-> NoPanic, r2 |-> NoPanic,
     buf |-> <<>>, closed |-> FALSE, recvd |-> <<>>,
     sent |-> <<>>, closeCalls |-> 0, called |-> "none",
     ops |-> 0, rfSends |-> 0, rfEnd |-> "none", fCalls |-> 0,
     fPanicNil |-> FALSE]

Tasks == DOMAIN tasks
Launches == DOMAIN launches

\* The struct-channel variant, goroutine.go lines 82-178: one *goroutine
\* built by Goroutine(f), the goroutine "G" its Go method spawns, the
\* nested goroutine "N" that G's deferred function starts to run g.recF,
\* and the goroutine "NN" that N's deferred function starts to run the
\* nested printer.  A recover function is named by what it does.
SvRoutines == {"G", "N", "NN"}
SvDefaultPrint == "print"
SvNestedPrint == "printNested"
SvNilRecF == "nil"
SvNoGoroutine == "none"
SvRecoverFuncs == {SvDefaultPrint, "returns", "panics", "panicsNil", SvNilRecF}

SvInit ==
    [def |-> SvDefaultPrint, recF |-> SvNoGoroutine,
     pc |-> [x \in SvRoutines |-> "idle"],
     out |-> [x \in SvRoutines |-> "none"],
     panicked |-> [x \in SvRoutines |-> FALSE],
     sends |-> [x \in SvRoutines |-> 0],
     got |-> 0, crashed |-> FALSE]

\* The reflection variant, routine.go: the default recover function, the
\* goroutines started by Go, the panics Go raised in its caller and
\* whether a panic has left a goroutine.  A recover function is named by
\* what it does.
RvDefaultPrint == "print"
RvNilRecFn == "nil"
RvRecoverFuncs == {RvDefaultPrint, "returns", "panics", RvNilRecFn}

RvInit == [def |-> RvDefaultPrint, runs |-> <<>>, raised |-> 0,
           crashed |-> FALSE]

\* The process is running: no panic has left a goroutine.
Alive == escaped = NoPanic

Init ==
    /\ defaultRecoverFunc = BuiltinRf
    /\ protoValue = [p \in Prototypes |-> NoValue]
    /\ tasks = <<>>
    /\ launches = <<>>
    /\ escaped = NoPanic
    /\ saved = NoSaved
    /\ pending = <<>>
    /\ rendered = NoText
    /\ sv = SvInit
    /\ rv = RvInit

----------------------------------------------------------------------------
(* Channel operations of the Go runtime on a launch's done channel.        *)

\* A send proceeds (possibly by panicking) when the channel is closed or
\* the buffer has room; otherwise the sender blocks.
CanSend(L) == L.closed \/ Len(L.buf) < DoneCap

\* A receive proceeds when a value is buffered or the channel is closed.
CanRecv(L) == Len(L.buf) > 0 \/ L.closed

\* The launch after a successful send of e.
AfterSend(L, e) == [L EXCEPT !.buf = Append(@, e), !.sent = Append(@, e)]

----------------------------------------------------------------------------
(* panic_error.go                                                          *)

\* The prototypes' value fields after pe.WithValue(v): pe.value = v is
\* an assignment through the receiver pointer.  Concurrent calls are not
\* synchronised; the model takes their writes one at a time, in any order.
WithValue(p, v) == [protoValue EXCEPT ![p] = v]

\* The pointer WithValue returns: the receiver itself.
WithValueResult(p, v) == ProtoRef(p)

\* A variant of Error() without the test of line 20: the value is always
\* formatted.
ErrorAlwaysFormats(p) == <<Message(p), ": ">> \o Format(protoValue[p])

\* Lines 19-25, pe.Error() on prototype p: the bare message when the value
\* field is nil, else Sprintf("%s: %v", pe.message, pe.value).
Error(p) ==
    IF protoValue[p] = NoValue
    THEN <<Message(p)>>
    ELSE <<Message(p), ": ">> \o Format(protoValue[p])

\* The values caller code attaches to a prototype: nil or a payload.
AttachedValues == {NoValue, SendOnClosed} \cup {FPanic(l) : l \in 1..MaxLaunch}
                     \cup {RfPanic(l) : l \in 1..MaxLaunch}

\* Caller code calls p.WithValue(v) on an exported prototype, as the tests
\* do to build the error they expect.
CallWithValue(p, v) ==
    /\ Alive
    /\ protoValue' = WithValue(p, v)
    /\ UNCHANGED <<defaultRecoverFunc, tasks, launches, escaped,
                   saved, pending, rendered, sv, rv>>

\* Caller code calls p.Error().
CallError(p) ==
    /\ Alive
    /\ rendered' = Error(p)
    /\ UNCHANGED <<defaultRecoverFunc, protoValue, tasks, launches, escaped,
                   saved, pending, sv, rv>>

----------------------------------------------------------------------------
(* The package API, called by the application's goroutines.                *)

\* A variant of New that always stores the built-in recover function.
NewTaskAlwaysBuiltin == Task(BuiltinRf)

\* New(f): rf is the current value of defaultRecoverFunc.
NewTask == Task(defaultRecoverFunc)

\* New(f), while fewer than maxT tasks exist.
New(maxT) ==
    /\ Alive
    /\ Len(tasks) < maxT
    /\ tasks' = Append(tasks, NewTask)
    /\ UNCHANGED <<defaultRecoverFunc, protoValue, launches, escaped,
                   saved, pending, rendered, sv, rv>>

\* g.WithRecover(rf): g.rf = rf; returns g.
WithRecover(t, h) ==
    /\ Alive
    /\ tasks' = [tasks EXCEPT ![t].rf = h]
    /\ UNCHANGED <<defaultRecoverFunc, protoValue, launches, escaped,
                   saved, pending, rendered, sv, rv>>

\* SetDefaultRecoverFunc(rf): defaultRecoverFunc = rf.
SetDefaultRecoverFunc(h) ==
    /\ Alive
    /\ defaultRecoverFunc' = h
    /\ UNCHANGED <<protoValue, tasks, launches, escaped,
                   saved, pending, rendered, sv, rv>>

\* saved := GetDefaultRecoverFunc(): the current value of
\* defaultRecoverFunc, kept by the caller.
GetDefaultRecoverFunc ==
    /\ Alive
    /\ saved' = defaultRecoverFunc
    /\ UNCHANGED <<defaultRecoverFunc, protoValue, tasks, launches, escaped,
                   pending, rendered, sv, rv>>

\* SetDefaultRecoverFunc(rf) called by a goroutine that is not
\* synchronised with the readers of defaultRecoverFunc.  Line 69 is a
\* plain store, with no lock and no atomic operation: the call returns
\* when the store is issued, and the store reaches the memory the other
\* goroutines read at some later moment.
SetDefaultRecoverFuncUnsynced(h) ==
    /\ Alive
    /\ Len(pending) < MaxPending
    /\ pending' = Append(pending, h)
    /\ UNCHANGED <<defaultRecoverFunc, protoValue, tasks, launches, escaped,
                   saved, rendered, sv, rv>>

\* The oldest store issued by SetDefaultRecoverFuncUnsynced reaches memory.
StoreReachesMemory ==
    /\ Alive
    /\ pending # <<>>
    /\ defaultRecoverFunc' = Head(pending)
    /\ pending' = Tail(pending)
    /\ UNCHANGED <<protoValue, tasks, launches, escaped, saved, rendered, sv, rv>>

\* g.Go(): allocates done, spawns the goroutine and returns done, while
\* fewer than maxL launches exist.
GoMethod(t, maxL) ==
    /\ Alive
    /\ Len(launches) < maxL
    /\ launches' = Append(launches, Launch(t))
    /\ UNCHANGED <<defaultRecoverFunc, protoValue, tasks, escaped,
                   saved, pending, rendered, sv, rv>>

\* Go(f): New(f).Go().
Go(maxT, maxL) ==
    /\ Alive
    /\ Len(tasks) < maxT
    /\ Len(launches) < maxL
    /\ tasks' = Append(tasks, NewTask)
    /\ launches' = Append(launches, Launch(Len(tasks) + 1))
    /\ UNCHANGED <<defaultRecoverFunc, protoValue, escaped,
                   saved, pending, rendered, sv, rv>>

----------------------------------------------------------------------------
(* The goroutine spawned by the Go method, goroutine.go lines 27-37.       *)

\* Line 36: g.f().  The work returns or panics.
FOutcomes(l) == {NoPanic, FPanic(l)}

\* A variant of line 36 that calls the work a second time.
RunFTwice(l) ==
    /\ Alive
    /\ launches[l].pc = "f"
    /\ \E out \in FOutcomes(l) :
          launches' = [launches EXCEPT ![l].r = out, ![l].pc = "deferred",
                                       ![l].fCalls = @ + 2]
    /\ UNCHANGED <<defaultRecoverFunc, protoValue, tasks, escaped,
                   saved, pending, rendered, sv, rv>>

RunF(l) ==
    /\ Alive
    /\ launches[l].pc = "f"
    /\ \E out \in FOutcomes(l) :
          launches' = [launches EXCEPT ![l].r = out, ![l].pc = "deferred",
                                       ![l].fCalls = @ + 1]
    /\ UNCHANGED <<defaultRecoverFunc, protoValue, tasks, escaped,
                   saved, pending, rendered, sv, rv>>

\* A variant of the test of line 29 that forgets r != nil.
RecoverTestIgnoresR(L) == tasks[L.g].rf # NilRf

\* Line 36: g.f() ends with panic(nil).
RunFNil(l) ==
    /\ Alive
    /\ launches[l].pc = "f"
    /\ \E out \in NilPanicRecovered :
          launches' = [launches EXCEPT ![l].r = out, ![l].pc = "deferred",
                                       ![l].fCalls = @ + 1,
                                       ![l].fPanicNil = TRUE]
    /\ UNCHANGED <<defaultRecoverFunc, protoValue, tasks, escaped,
                   saved, pending, rendered, sv, rv>>

\* Line 29: r := recover(); r != nil && g.rf != nil.  recover() ends the
\* panic of f whatever the test then decides.
RecoverTest(L) == L.r # NoPanic /\ tasks[L.g].rf # NilRf

\* A variant of line 29 that calls recover() only when a recover function
\* is stored: with a nil rf the panic of f goes on and leaves the goroutine.
DeferredRecoversOnlyWithRf(l) ==
    /\ Alive
    /\ launches[l].pc = "deferred"
    /\ IF launches[l].r # NoPanic /\ tasks[launches[l].g].rf = NilRf
       THEN /\ launches' = [launches EXCEPT ![l].pc = "crash"]
            /\ escaped' = launches[l].r
       ELSE /\ launches' = [launches EXCEPT
                 ![l].pc = IF RecoverTest(launches[l]) THEN "call" ELSE "close"]
            /\ UNCHANGED escaped
    /\ UNCHANGED <<defaultRecoverFunc, protoValue, tasks,
                   saved, pending, rendered, sv, rv>>

Deferred(l) ==
    /\ Alive
    /\ launches[l].pc = "deferred"
    /\ launches' = [launches EXCEPT
          ![l].pc = IF RecoverTest(launches[l]) THEN "call" ELSE "close"]
    /\ UNCHANGED <<defaultRecoverFunc, protoValue, tasks, escaped,
                   saved, pending, rendered, sv, rv>>

\* Line 32: the closure func() { g.rf(r, done) } run by panicSafeRecover
\* reads g.rf again and calls it; calling a nil func value panics.
\* A variant of line 32 that calls the package default of the moment.
StoredRfIsDefault(L) == defaultRecoverFunc

\* The recover function line 32 calls: the one stored in the task.
StoredRf(L) == tasks[L.g].rf

\* A variant of line 32 that calls the built-in recover function whatever
\* the task stores.
CallRfAlwaysBuiltin(l) ==
    /\ Alive
    /\ launches[l].pc = "call"
    /\ launches' = [launches EXCEPT ![l].pc = BuiltinRf,
                                    ![l].called = BuiltinRf]
    /\ UNCHANGED <<defaultRecoverFunc, protoValue, tasks, escaped,
                   saved, pending, rendered, sv, rv>>

CallRf(l) ==
    /\ Alive
    /\ launches[l].pc = "call"
    /\ LET h == StoredRf(launches[l]) IN
       launches' = [launches EXCEPT ![l] =
          IF h = NilRf
          THEN [@ EXCEPT !.pc = "psr", !.r2 = NilFuncCall, !.rfEnd = "panic"]
          ELSE [@ EXCEPT !.pc = h, !.called = h]]
    /\ UNCHANGED <<defaultRecoverFunc, protoValue, tasks, escaped,
                   saved, pending, rendered, sv, rv>>

\* Lines 9-11, the built-in recover function, first half:
\* ErrPanicRecovered.WithValue(v).
BuiltinWithValue(l) ==
    /\ Alive
    /\ launches[l].pc = BuiltinRf
    /\ protoValue' = WithValue(ErrPanicRecovered, launches[l].r)
    /\ launches' = [launches EXCEPT ![l].pc = "builtinSend"]
    /\ UNCHANGED <<defaultRecoverFunc, tasks, escaped,
                   saved, pending, rendered, sv, rv>>

\* Lines 9-11, second half: done <- the pointer WithValue returned.
BuiltinSend(l) ==
    /\ Alive
    /\ launches[l].pc = "builtinSend"
    /\ CanSend(launches[l])
    /\ launches' = [launches EXCEPT ![l] =
          IF @.closed
          THEN [@ EXCEPT !.pc = "psr", !.r2 = SendOnClosed, !.rfEnd = "panic"]
          ELSE [AfterSend(@, WithValueResult(ErrPanicRecovered, @.r))
                  EXCEPT !.pc = "close", !.rfSends = @ + 1,
                         !.rfEnd = "return"]]
    /\ UNCHANGED <<defaultRecoverFunc, protoValue, tasks, escaped,
                   saved, pending, rendered, sv, rv>>

\* A custom recover function sends an error of its own on done.
CustomSend(l) ==
    /\ Alive
    /\ launches[l].pc = CustomRf
    /\ launches[l].ops < MaxOps
    /\ CanSend(launches[l])
    /\ launches' = [launches EXCEPT ![l] =
          IF @.closed
          THEN [@ EXCEPT !.pc = "psr", !.r2 = SendOnClosed, !.rfEnd = "panic"]
          ELSE [AfterSend(@, OwnError(@.r))
                  EXCEPT !.ops = @ + 1, !.rfSends = @ + 1]]
    /\ UNCHANGED <<defaultRecoverFunc, protoValue, tasks, escaped,
                   saved, pending, rendered, sv, rv>>

\* A custom recover function closes done (close accepts a chan<- error).
CustomClose(l) ==
    /\ Alive
    /\ launches[l].pc = CustomRf
    /\ launches[l].ops < MaxOps
    /\ launches' = [launches EXCEPT ![l] =
          IF @.closed
          THEN [@ EXCEPT !.pc = "psr", !.r2 = CloseOfClosed,
                         !.rfEnd = "panic", !.closeCalls = @ + 1]
          ELSE [@ EXCEPT !.closed = TRUE, !.ops = @ + 1,
                         !.closeCalls = @ + 1]]
    /\ UNCHANGED <<defaultRecoverFunc, protoValue, tasks, escaped,
                   saved, pending, rendered, sv, rv>>

\* A custom recover function returns.
CustomReturn(l) ==
    /\ Alive
    /\ launches[l].pc = CustomRf
    /\ launches' = [launches EXCEPT ![l].pc = "close", ![l].rfEnd = "return"]
    /\ UNCHANGED <<defaultRecoverFunc, protoValue, tasks, escaped,
                   saved, pending, rendered, sv, rv>>

\* A custom recover function panics.
CustomPanic(l) ==
    /\ Alive
    /\ launches[l].pc = CustomRf
    /\ launches' = [launches EXCEPT
          ![l].pc = "psr", ![l].r2 = RfPanic(l), ![l].rfEnd = "panic"]
    /\ UNCHANGED <<defaultRecoverFunc, protoValue, tasks, escaped,
                   saved, pending, rendered, sv, rv>>

\* A custom recover function ends with panic(nil).  When recover() in
\* panicSafeRecover (line 75) returns nil, the test r != nil fails and
\* panicSafeRecover returns without a send.
CustomPanicNil(l) ==
    /\ Alive
    /\ launches[l].pc = CustomRf
    /\ \E out \in NilPanicRecovered :
          launches' = [launches EXCEPT
             ![l].pc = IF out = NoPanic THEN "close" ELSE "psr",
             ![l].r2 = out, ![l].rfEnd = "panic"]
    /\ UNCHANGED <<defaultRecoverFunc, protoValue, tasks, escaped,
                   saved, pending, rendered, sv, rv>>

\* Lines 75-76 of panicSafeRecover, first half: r := recover(); r != nil;
\* ErrRecoverFuncPanicRecovered.WithValue(r).
PsrWithValue(l) ==
    /\ Alive
    /\ launches[l].pc = "psr"
    /\ protoValue' = WithValue(ErrRecoverFuncPanicRecovered, launches[l].r2)
    /\ launches' = [launches EXCEPT ![l].pc = "psrSend"]
    /\ UNCHANGED <<defaultRecoverFunc, tasks, escaped,
                   saved, pending, rendered, sv, rv>>

\* Line 76, second half: done <- the pointer.  The send runs in a deferred
\* function with no recover above it: if it panics, the panic leaves the
\* goroutine.
PsrSend(l) ==
    /\ Alive
    /\ launches[l].pc = "psrSend"
    /\ CanSend(launches[l])
    /\ IF launches[l].closed
       THEN /\ launches' = [launches EXCEPT ![l].pc = "crash"]
            /\ escaped' = SendOnClosed
       ELSE /\ launches' = [launches EXCEPT ![l] =
                 [AfterSend(@, WithValueResult(ErrRecoverFuncPanicRecovered,
                                               @.r2))
                    EXCEPT !.pc = "close"]]
            /\ UNCHANGED escaped
    /\ UNCHANGED <<defaultRecoverFunc, protoValue, tasks,
                   saved, pending, rendered, sv, rv>>

\* A variant of the deferred function that returns without close(done).
CloseDoneForgotten(l) ==
    /\ Alive
    /\ launches[l].pc = "close"
    /\ launches' = [launches EXCEPT ![l].pc = "exit"]
    /\ UNCHANGED <<defaultRecoverFunc, protoValue, tasks, escaped,
                   saved, pending, rendered, sv, rv>>

\* Line 34: close(done), in the goroutine's deferred function.
CloseDone(l) ==
    /\ Alive
    /\ launches[l].pc = "close"
    /\ IF launches[l].closed
       THEN /\ launches' = [launches EXCEPT
                 ![l].pc = "crash", ![l].closeCalls = @ + 1]
            /\ escaped' = CloseOfClosed
       ELSE /\ launches' = [launches EXCEPT
                 ![l].pc = "exit", ![l].closed = TRUE,
                 ![l].closeCalls = @ + 1]
            /\ UNCHANGED escaped
    /\ UNCHANGED <<defaultRecoverFunc, protoValue, tasks,
                   saved, pending, rendered, sv, rv>>

----------------------------------------------------------------------------
(* The consumer of the channel a launch returned.                          *)

\* A variant of the receive that leaves the error it yields in the buffer.
RecvPeeks(l, maxR) ==
    /\ Alive
    /\ Len(launches[l].recvd) < maxR
    /\ CanRecv(launches[l])
    /\ launches' = [launches EXCEPT ![l] =
          LET e == IF Len(@.buf) > 0 THEN Head(@.buf) ELSE NilError IN
          [@ EXCEPT !.recvd = Append(@, [err |-> e, seen |-> Observe(e)])]]
    /\ UNCHANGED <<defaultRecoverFunc, protoValue, tasks, escaped,
                   saved, pending, rendered, sv, rv>>

\* err := <-done, by a consumer that receives at most maxR times.  A
\* closed and drained channel yields nil.
RecvUpTo(l, maxR) ==
    /\ Alive
    /\ Len(launches[l].recvd) < maxR
    /\ CanRecv(launches[l])
    /\ launches' = [launches EXCEPT ![l] =
          LET e == IF Len(@.buf) > 0 THEN Head(@.buf) ELSE NilError IN
          [@ EXCEPT !.recvd = Append(@, [err |-> e, seen |-> Observe(e)]),
                    !.buf = IF Len(@) > 0 THEN Tail(@) ELSE @]]
    /\ UNCHANGED <<defaultRecoverFunc, protoValue, tasks, escaped,
                   saved, pending, rendered, sv, rv>>

Recv(l) == RecvUpTo(l, MaxReads)

----------------------------------------------------------------------------
(* The struct-channel variant, goroutine.go lines 82-178.                  *)

\* Goroutine(f), lines 105-110: the new goroutine value takes the default
\* recover function of this moment.
Goroutine ==
    /\ ~sv.crashed
    /\ sv.recF = SvNoGoroutine
    /\ sv' = [sv EXCEPT !.recF = sv.def]
    /\ UNCHANGED <<defaultRecoverFunc, protoValue, tasks, launches, escaped,
                   saved, pending, rendered, rv>>

\* WithRecoverFunc, lines 175-178: g.recF = f, at any time, nil included.
WithRecoverFunc(h) ==
    /\ ~sv.crashed
    /\ sv.recF # SvNoGoroutine
    /\ sv' = [sv EXCEPT !.recF = h]
    /\ UNCHANGED <<defaultRecoverFunc, protoValue, tasks, launches, escaped,
                   saved, pending, rendered, rv>>

\* SetDefaultRecoverFunc of this variant, lines 136-138.
SvSetDefaultRecoverFunc(h) ==
    /\ ~sv.crashed
    /\ sv' = [sv EXCEPT !.def = h]
    /\ UNCHANGED <<defaultRecoverFunc, protoValue, tasks, launches, escaped,
                   saved, pending, rendered, rv>>

\* The Go method, lines 153-170: an unbuffered done channel, one goroutine
\* started, the channel returned at once.
SvGo ==
    /\ ~sv.crashed
    /\ sv.recF # SvNoGoroutine
    /\ sv.pc["G"] = "idle"
    /\ sv' = [sv EXCEPT !.pc["G"] = "f"]
    /\ UNCHANGED <<defaultRecoverFunc, protoValue, tasks, launches, escaped,
                   saved, pending, rendered, rv>>

SvParent(x) == IF x = "NN" THEN "N" ELSE "G"
SvChild(x) == IF x = "G" THEN "N" ELSE "NN"

\* The recover function of a routine's goroutine value: g.recF for G, read
\* when it is used; the printer of line 161 for the nested ones.
SvRecF(x) == IF x = "G" THEN sv.recF ELSE SvNestedPrint

\* How a call of recover function h ends.  Calling a nil function is a
\* run-time panic with a non-nil value.
SvCall(h) ==
    CASE h \in {SvDefaultPrint, SvNestedPrint, "returns"} -> {"return"}
      [] h \in {"panics", SvNilRecF} -> {"panic"}
      [] h = "panicsNil" -> {"panicNil"}

\* The ways g.f() of routine x can end: the application's work for G, the
\* closure  func() { g.recF(r) }  of line 160 for a nested routine.
SvFOutcomes(x) ==
    IF x = "G" THEN {"return", "panic", "panicNil"}
    ELSE SvCall(SvRecF(SvParent(x)))

\* What recover() of line 157 yields after panic(nil): nil, or a
\* *runtime.PanicNilError from Go 1.21 on.
SvRecovered(out) ==
    CASE out = "return" -> {FALSE}
      [] out = "panic" -> {TRUE}
      [] out = "panicNil" -> {FALSE, TRUE}

\* Line 166: g.f().  A return goes on to the send of line 167, a panic
\* unwinds to the deferred function.
SvRunF(x) ==
    /\ ~sv.crashed
    /\ sv.pc[x] = "f"
    /\ \E out \in SvFOutcomes(x) : \E rec \in SvRecovered(out) :
         sv' = [sv EXCEPT !.out[x] = out,
                          !.panicked[x] = rec,
                          !.pc[x] = IF out = "return" THEN "send167"
                                    ELSE "deferred"]
    /\ UNCHANGED <<defaultRecoverFunc, protoValue, tasks, launches, escaped,
                   saved, pending, rendered, rv>>

\* A deferred function that calls g.recF itself: a panic of the recover
\* function then leaves the goroutine.
SvDeferredCallsRecF(x) ==
    /\ ~sv.crashed
    /\ sv.pc[x] = "deferred"
    /\ IF sv.panicked[x] /\ SvRecF(x) # SvNilRecF
       THEN \E out \in SvCall(SvRecF(x)) :
              sv' = [sv EXCEPT !.pc[x] = IF out = "return" THEN "send164"
                                         ELSE "exit",
                               !.crashed = (out # "return")]
       ELSE sv' = [sv EXCEPT !.pc[x] = "send164"]
    /\ UNCHANGED <<defaultRecoverFunc, protoValue, tasks, launches, escaped,
                   saved, pending, rendered, rv>>

\* Lines 156-163, the deferred function up to its receive: with a
\* recovered value and a non-nil g.recF it starts a nested goroutine that
\* runs g.recF and waits for it, otherwise it goes on to the send of
\* line 164.  The nested printer returns, so NN never starts a child.
SvDeferred(x) ==
    /\ ~sv.crashed
    /\ sv.pc[x] = "deferred"
    /\ IF sv.panicked[x] /\ SvRecF(x) # SvNilRecF
       THEN sv' = [sv EXCEPT !.pc[x] = "wait", !.pc[SvChild(x)] = "f"]
       ELSE sv' = [sv EXCEPT !.pc[x] = "send164"]
    /\ UNCHANGED <<defaultRecoverFunc, protoValue, tasks, launches, escaped,
                   saved, pending, rendered, rv>>

\* The receiver of a routine's unbuffered done channel is ready: the
\* consumer for G, as long as it still receives; the parent's deferred
\* function at its single receive of line 160 for a nested routine.
SvReceiverReady(x) ==
    IF x = "G" THEN sv.got < MaxReads ELSE sv.pc[SvParent(x)] = "wait"

\* done <- struct{}{}  of line 167 or line 164, a rendezvous with the
\* receiver.  After line 167 the function returns and the deferred function
\* runs; after line 164 the goroutine ends.
SvSend(x) ==
    /\ ~sv.crashed
    /\ sv.pc[x] \in {"send167", "send164"}
    /\ SvReceiverReady(x)
    /\ LET next == IF sv.pc[x] = "send167" THEN "deferred" ELSE "exit"
       IN  IF x = "G"
           THEN sv' = [sv EXCEPT !.pc[x] = next, !.sends[x] = @ + 1,
                                 !.got = @ + 1]
           ELSE sv' = [sv EXCEPT !.pc[x] = next, !.sends[x] = @ + 1,
                                 !.pc[SvParent(x)] = "send164"]
    /\ UNCHANGED <<defaultRecoverFunc, protoValue, tasks, launches, escaped,
                   saved, pending, rendered, rv>>

----------------------------------------------------------------------------
(* The reflection variant, routine.go.                                     *)

\* SetDefaultRecoverFunc, routine.go lines 74-76.
RvSetDefaultRecoverFunc(h) ==
    /\ ~rv.crashed
    /\ rv' = [rv EXCEPT !.def = h]
    /\ UNCHANGED <<defaultRecoverFunc, protoValue, tasks, launches, escaped,
                   saved, pending, rendered, sv>>

\* The goroutine  go routine(g, params...)  of line 69: what g.Run()
\* returns, the number of inputs of that function, the number of params
\* and what g.Recover does.
RvRoutine(run, numIn, params, rec) ==
    [run |-> run, numIn |-> numIn, params |-> params, rec |-> rec,
     pc |-> "run", fail |-> "none", r |-> "nil", recovers |-> 0]

\* Go, routine.go lines 56-70.  A GoRoutiner is taken as it is; a function
\* is wrapped with the default recover function of this moment; anything
\* else makes Go panic in its caller, before a goroutine is started.
RvGo(kind, run, numIn, params, rec) ==
    /\ ~rv.crashed
    /\ Len(rv.runs) + rv.raised < MaxLaunch
    /\ CASE kind = "GoRoutiner" ->
              rv' = [rv EXCEPT !.runs =
                        Append(@, RvRoutine(run, numIn, params, rec))]
         [] kind = "func" ->
              rv' = [rv EXCEPT !.runs =
                        Append(@, RvRoutine("func", numIn, params, rv.def))]
         [] kind = "other" ->
              rv' = [rv EXCEPT !.raised = @ + 1]
    /\ UNCHANGED <<defaultRecoverFunc, protoValue, tasks, launches, escaped,
                   saved, pending, rendered, sv>>

\* What recover() of line 81 yields for each way the body of routine
\* ends.  After panic(nil) it yields nil, or a *runtime.PanicNilError from
\* Go 1.21 on.
RvRecovered(fail) ==
    CASE fail = "none" -> {"nil"}
      [] fail = "panicNil" -> {"nil", "PanicNilError"}
      [] OTHER -> {"value"}

\* The failures of the body of routine, lines 86-103: Run returned no
\* function, the number of params differs from the function's inputs, or
\* the called function ends in one of the ways caller code can end.
RvFailures(g) ==
    IF g.run # "func" THEN {"notFunc"}
    ELSE IF g.params # g.numIn THEN {"arity"}
    ELSE {"none", "panic", "panicNil"}

\* routine, lines 86-103, up to the point where the deferred function
\* runs.
routine(i) ==
    /\ ~rv.crashed
    /\ i \in DOMAIN rv.runs
    /\ rv.runs[i].pc = "run"
    /\ \E fail \in RvFailures(rv.runs[i]) : \E r \in RvRecovered(fail) :
         rv' = [rv EXCEPT !.runs[i].fail = fail, !.runs[i].r = r,
                          !.runs[i].pc = "deferred"]
    /\ UNCHANGED <<defaultRecoverFunc, protoValue, tasks, launches, escaped,
                   saved, pending, rendered, sv>>

\* The deferred function, lines 80-84: a non-nil recovered value is
\* passed to g.Recover.
RvDeferred(i) ==
    /\ ~rv.crashed
    /\ i \in DOMAIN rv.runs
    /\ rv.runs[i].pc = "deferred"
    /\ IF rv.runs[i].r # "nil"
       THEN rv' = [rv EXCEPT !.runs[i].pc = "recover",
                             !.runs[i].recovers = @ + 1]
       ELSE rv' = [rv EXCEPT !.runs[i].pc = "exit"]
    /\ UNCHANGED <<defaultRecoverFunc, protoValue, tasks, launches, escaped,
                   saved, pending, rendered, sv>>

\* A call of g.Recover under a guard that recovers its panic.
RecoverGuarded(i) ==
    /\ ~rv.crashed
    /\ i \in DOMAIN rv.runs
    /\ rv.runs[i].pc = "recover"
    /\ rv' = [rv EXCEPT !.runs[i].pc = "exit"]
    /\ UNCHANGED <<defaultRecoverFunc, protoValue, tasks, launches, escaped,
                   saved, pending, rendered, sv>>

\* g.Recover(r), line 82 (lines 37-39 for a GoRoutine), called in the
\* deferred function with nothing that recovers: its panic, or the call of
\* a nil RecFn, leaves the goroutine and ends the process.
Recover(i) ==
    /\ ~rv.crashed
    /\ i \in DOMAIN rv.runs
    /\ rv.runs[i].pc = "recover"
    /\ IF rv.runs[i].rec \in {"panics", RvNilRecFn}
       THEN rv' = [rv EXCEPT !.runs[i].pc = "crash", !.crashed = TRUE]
       ELSE rv' = [rv EXCEPT !.runs[i].pc = "exit"]
    /\ UNCHANGED <<defaultRecoverFunc, protoValue, tasks, launches, escaped,
                   saved, pending, rendered, sv>>

----------------------------------------------------------------------------
(* Specifications.                                                         *)

\* One step of the goroutine spawned by launch l.
GoroutineStep(l) ==
    \/ RunF(l)
    \/ Deferred(l)
    \/ CallRf(l)
    \/ BuiltinWithValue(l)
    \/ BuiltinSend(l)
    \/ CustomSend(l)
    \/ CustomClose(l)
    \/ CustomReturn(l)
    \/ CustomPanic(l)
    \/ PsrWithValue(l)
    \/ PsrSend(l)
    \/ CloseDone(l)

\* One step of the program with at most maxT tasks and maxL launches.
Step(maxT, maxL) ==
    \/ New(maxT)
    \/ Go(maxT, maxL)
    \/ \E t \in Tasks, h \in Handlers : WithRecover(t, h)
    \/ \E h \in Handlers : SetDefaultRecoverFunc(h)
    \/ \E t \in Tasks : GoMethod(t, maxL)
    \/ \E l \in Launches : GoroutineStep(l)
    \/ \E l \in Launches : Recv(l)

Next == Step(MaxTasks, MaxLaunch)

Spec == Init /\ [][Next]_vars

\* One launch more than Spec, and one task more: two launches run
\* concurrently, of the same task or of two tasks.
NextPair == Step(MaxTasks + 1, MaxLaunch + 1)

SpecPair == Init /\ [][NextPair]_vars

\* The launches of a single task, with consumers that receive once more
\* from their channel.
NextReread ==
    \/ Step(1, MaxLaunch)
    \/ \E l \in Launches : RecvUpTo(l, MaxReads + 1)

SpecReread == Init /\ [][NextReread]_vars

\* The package default and the tasks constructed from it: a caller that
\* constructs tasks, launches them with the one-shot Go, sets the default
\* and saves what GetDefaultRecoverFunc returns.
NextDefault ==
    \/ New(MaxTasks + 1)
    \/ Go(MaxTasks + 1, MaxLaunch)
    \/ \E h \in Handlers : SetDefaultRecoverFunc(h)
    \/ GetDefaultRecoverFunc

SpecDefault == Init /\ [][NextDefault]_vars

\* A goroutine that sets the package default while another one, with
\* which it is not synchronised, reads it through New, Go and
\* GetDefaultRecoverFunc.
NextRace ==
    \/ New(MaxTasks)
    \/ Go(MaxTasks, MaxLaunch)
    \/ GetDefaultRecoverFunc
    \/ \E h \in Handlers : SetDefaultRecoverFuncUnsynced(h)
    \/ StoreReachesMemory

SpecRace == Init /\ [][NextRace]_vars

\* The launches of a single task whose work and custom recover function
\* may also end with panic(nil).
NextNil ==
    \/ Step(1, MaxLaunch)
    \/ \E l \in Launches : RunFNil(l)
    \/ \E l \in Launches : CustomPanicNil(l)

SpecNil == Init /\ [][NextNil]_vars

\* Caller code that attaches values to the prototypes and renders them.
NextError ==
    \/ \E p \in Prototypes, v \in AttachedValues : CallWithValue(p, v)
    \/ \E p \in Prototypes : CallError(p)

SpecError == Init /\ [][NextError]_vars

\* The launches of a single task, scheduled fairly.  The Go scheduler runs
\* every runnable goroutine: the spawned goroutine of every launch, and a
\* consumer that is receiving from its channel.
NextFair == Step(1, MaxLaunch)

Fairness ==
    \A l \in 1..MaxLaunch :
        /\ WF_vars(l \in Launches /\ GoroutineStep(l))
        /\ WF_vars(l \in Launches /\ Recv(l))

FairSpec == Init /\ [][NextFair]_vars /\ Fairness

\* The struct-channel variant: one goroutine value, its launch and the
\* consumer of its done channel.
SvStep ==
    \E x \in SvRoutines : SvRunF(x) \/ SvDeferred(x) \/ SvSend(x)

NextStruct ==
    \/ Goroutine
    \/ \E h \in SvRecoverFuncs : WithRecoverFunc(h)
    \/ \E h \in SvRecoverFuncs : SvSetDefaultRecoverFunc(h)
    \/ SvGo
    \/ SvStep

SpecStruct == Init /\ [][NextStruct]_vars

\* The Go scheduler runs every goroutine that can take a step.
FairSpecStruct == Init /\ [][NextStruct]_vars /\ WF_vars(SvStep)

\* The reflection variant.
NextReflect ==
    \/ \E h \in RvRecoverFuncs : RvSetDefaultRecoverFunc(h)
    \/ \E kind \in {"GoRoutiner", "func", "other"} :
       \E run \in {"func", "other"} :
       \E numIn \in 0..MaxParams : \E params \in 0..MaxParams :
       \E rec \in RvRecoverFuncs :
           RvGo(kind, run, numIn, params, rec)
    \/ \E i \in 1..MaxLaunch : routine(i) \/ RvDeferred(i) \/ Recover(i)

SpecReflect == Init /\ [][NextReflect]_vars

----------------------------------------------------------------------------
(* Properties.                                                             *)

\* The work of launch L has panicked (and line 29 has recovered, or is
\* about to recover, its payload).
FPanicked(l) == launches[l].r = FPanic(l)

\* The work of launch L has returned normally.
FReturned(l) ==
    /\ launches[l].r = NoPanic
    /\ launches[l].pc # "f"
    /\ ~launches[l].fPanicNil

\* What the consumer of launch l saw in its i-th receive.
Seen(l, i) == launches[l].recvd[i].seen

\* A failure of the given kind carrying v.
Failure(kind, v) == [kind |-> kind, value |-> v]

\* C1: whatever recover function is stored (built-in, custom or nil), a
\* panic of the work f never leaves the spawned goroutine: the payload
\* that terminated the process, if any, is never the payload of a work,
\* and a launch whose work panicked is never stopped by that panic.
C1_WorkPanicNeverEscapes ==
    \A l \in Launches :
        /\ escaped # FPanic(l)
        /\ (FPanicked(l) /\ launches[l].pc = "crash")
              => escaped \in {SendOnClosed, CloseOfClosed}

\* C1 witness: a work panicked under a nil recover function and the
\* goroutine ran to its end.
C1_Witness ==
    \E l \in Launches :
        /\ FPanicked(l)
        /\ launches[l].pc = "exit"
        /\ launches[l].called = "none"
        /\ tasks[launches[l].g].rf = NilRf

\* C2 (as claimed): whenever the recover function of a launch has itself
\* panicked with r2, the process is still running, and a consumer that has
\* drained the channel of the finished launch has observed
\* ErrRecoverFuncPanicRecovered carrying r2.
C2_DoubleFaultDelivered ==
    \A l \in Launches :
        (launches[l].rfEnd = "panic" /\ launches[l].r2 = RfPanic(l))
        => /\ Alive
           /\ (/\ launches[l].pc = "exit"
               /\ launches[l].buf = <<>>
               /\ launches[l].recvd # <<>>)
              => \E i \in DOMAIN launches[l].recvd :
                    Seen(l, i) = Failure(ErrRecoverFuncPanicRecovered,
                                         RfPanic(l))

\* C3 (as claimed): no panic ever leaves a spawned goroutine, whatever the
\* recover function does with done.
C3_NoPanicEscapes == Alive

\* C4: a work that returned normally has its launch closed without a send:
\* no recover function is invoked, nothing is ever sent on done, the
\* goroutine reaches its end through the one close(done), and every
\* receive of the consumer yields nil from the closed channel.
C4_NormalReturnClosesEmpty ==
    \A l \in Launches :
        FReturned(l)
        => /\ launches[l].called = "none"
           /\ launches[l].rfEnd = "none"
           /\ launches[l].sent = <<>>
           /\ launches[l].pc \in {"deferred", "close", "exit"}
           /\ launches[l].pc = "exit"
                 => launches[l].closed /\ launches[l].closeCalls = 1
           /\ launches[l].recvd # <<>> => launches[l].closed
           /\ \A i \in DOMAIN launches[l].recvd :
                 launches[l].recvd[i].err = NilError

\* C4 witness: a work returned normally in a task with a custom recover
\* function, and the consumer has received nil.
C4_Witness ==
    \E l \in Launches :
        /\ FReturned(l)
        /\ launches[l].pc = "exit"
        /\ tasks[launches[l].g].rf = CustomRf
        /\ launches[l].recvd # <<>>

\* C5 (as claimed): when the built-in recover function handled a panic of
\* the work with payload v, the first thing the consumer receives is
\* ErrPanicRecovered carrying exactly v, and the next receive finds the
\* channel closed.
C5_DefaultDeliversPayload ==
    \A l \in Launches :
        (launches[l].called = BuiltinRf /\ launches[l].recvd # <<>>)
        => /\ Seen(l, 1) = Failure(ErrPanicRecovered, launches[l].r)
           /\ Len(launches[l].recvd) > 1
                 => launches[l].recvd[2].err = NilError

\* C6 (as claimed): in every launch close(done) is executed at most once,
\* and exactly once by the time the goroutine has ended.
C6_ClosedExactlyOnce ==
    \A l \in Launches :
        /\ launches[l].closeCalls <= 1
        /\ launches[l].pc = "exit"
              => launches[l].closeCalls = 1 /\ launches[l].closed

SendBlocked(l) ==
    /\ launches[l].pc \in {"builtinSend", "psrSend"}
    /\ ~CanSend(launches[l])

\* C8 (as claimed): if the consumer has not read and the recover function
\* has sent at most one value, no send of the spawned goroutine is blocked.
C8_NoSendBlocks ==
    \A l \in Launches :
        (launches[l].recvd = <<>> /\ launches[l].rfSends <= 1)
        => ~SendBlocked(l)

\* C9 (as claimed): when the recover function itself sends at most one
\* value, at most one value is ever sent on done.
C9_AtMostOneValueSent ==
    \A l \in Launches :
        launches[l].rfSends <= 1 => Len(launches[l].sent) <= 1

\* C10: the default is captured by value.  New stores the value the
\* package default has at that moment; a step that changes the package
\* default changes no constructed task; and the recover function a launch
\* invokes is the one stored in its task, not the default of the moment.
C10_DefaultCapturedByValue ==
    [][/\ \A t \in DOMAIN tasks' \ DOMAIN tasks :
             tasks'[t].rf = defaultRecoverFunc
       /\ defaultRecoverFunc' # defaultRecoverFunc
             => \A t \in DOMAIN tasks :
                   t \in DOMAIN tasks' /\ tasks'[t] = tasks[t]
       /\ \A l \in DOMAIN launches :
             launches'[l].called # launches[l].called
                => launches'[l].called = tasks[launches[l].g].rf]_vars

\* C10 witness: a task captured the built-in default, the package default
\* was then changed to a custom function, and the launch of the task
\* invoked the built-in recover function.
C10_Witness ==
    \E l \in Launches :
        /\ launches[l].called = BuiltinRf
        /\ tasks[launches[l].g].rf = BuiltinRf
        /\ defaultRecoverFunc = CustomRf

\* C11 (as claimed): WithValue leaves its receiver unchanged: after any
\* number of launches and panics the package-level prototypes still carry
\* no value.
C11_PrototypesKeepNoValue ==
    \A p \in Prototypes : protoValue[p] = NoValue

\* C12 (as claimed): the failure a consumer holds from a launch whose work
\* panicked under the built-in recover function reports the payload of
\* that launch, when it is received and at any later time, whatever the
\* other launch does.
C12_FailuresIsolated ==
    \A l \in Launches :
        launches[l].called = BuiltinRf
        => \A i \in DOMAIN launches[l].recvd :
              launches[l].recvd[i].err # NilError
              => /\ Seen(l, i) = Failure(ErrPanicRecovered, FPanic(l))
                 /\ Observe(launches[l].recvd[i].err)
                       = Failure(ErrPanicRecovered, FPanic(l))

\* The errors the consumer of launch l has taken out of the channel, in
\* order (a nil read from the closed channel takes nothing out).
Received(l) ==
    LET S == SelectSeq(launches[l].recvd, LAMBDA x : x.err # NilError)
    IN  [i \in 1..Len(S) |-> S[i].err]

\* C13: WithRecover replaces the recover function stored in the task and
\* constructs nothing: a step that changes a stored recover function
\* changes that of one existing task and nothing else.  The recover
\* function a launch invokes is the one stored in its task, whatever the
\* package default is, and only after a panic of the work.  What is sent
\* on done is what the consumer receives: the errors received followed by
\* those still buffered are the errors sent, in order, and a custom
\* recover function sends its own error for the payload of the work.
C13_StoredRfInvokedAndDelivered ==
    /\ [](\A l \in Launches :
             /\ Received(l) \o launches[l].buf = launches[l].sent
             /\ launches[l].called # "none" => FPanicked(l)
             /\ (launches[l].called = CustomRf /\ launches[l].rfSends > 0)
                   => launches[l].sent[1] = OwnError(FPanic(l)))
    /\ [][/\ (DOMAIN tasks' = DOMAIN tasks /\ tasks' # tasks)
                => /\ \E t \in DOMAIN tasks :
                         \A u \in DOMAIN tasks \ {t} : tasks'[u] = tasks[u]
                   /\ UNCHANGED <<defaultRecoverFunc, protoValue,
                                  launches, escaped, saved, pending, rendered>>
          /\ \A l \in DOMAIN launches :
                launches'[l].called # launches[l].called
                   => /\ launches[l].called = "none"
                      /\ launches'[l].called = tasks[launches[l].g].rf
                      /\ launches'[l].called # NilRf]_vars

\* C13 witness: the package default is nil, the task stores a custom
\* recover function, its launch invoked that function after a panic of
\* the work, and the consumer received the error the function sent.
C13_Witness ==
    \E l \in Launches :
        /\ defaultRecoverFunc = NilRf
        /\ tasks[launches[l].g].rf = CustomRf
        /\ launches[l].called = CustomRf
        /\ launches[l].recvd # <<>>
        /\ launches[l].recvd[1].err = OwnError(FPanic(l))

\* The panic of the work of launch l met no recover function (line 29
\* found g.rf nil), or a recover function that returned without sending.
SilentlyRecovered(l) ==
    /\ FPanicked(l)
    /\ launches[l].pc \in {"close", "exit", "crash"}
    /\ launches[l].rfEnd \in {"none", "return"}
    /\ launches[l].rfSends = 0

\* C14 (as claimed): when the panic of the work met a nil recover function
\* or one that returned without sending, the panic is swallowed and the
\* launch ends as after a normal return: nothing is sent, the goroutine
\* reaches its end through the one close(done) and is not stopped by a
\* panic, and every receive of the consumer yields nil from the closed
\* channel.
C14_SilentRecovery ==
    \A l \in Launches :
        SilentlyRecovered(l)
        => /\ launches[l].pc # "crash"
           /\ launches[l].sent = <<>>
           /\ launches[l].pc = "exit"
                 => launches[l].closed /\ launches[l].closeCalls = 1
           /\ launches[l].recvd # <<>> => launches[l].closed
           /\ \A i \in DOMAIN launches[l].recvd :
                 launches[l].recvd[i].err = NilError

\* C15 (as claimed): within a launch the work, the recover function and
\* the closing of done follow one another.  While the work runs no recover
\* function has started and done is open and empty; a recover function is
\* invoked only after a panic of the work; and done is closed only once
\* the goroutine has left the work and the recover function behind.
C15_StrictOrdering ==
    \A l \in Launches :
        /\ launches[l].pc = "f"
              => /\ launches[l].called = "none"
                 /\ launches[l].rfEnd = "none"
                 /\ launches[l].sent = <<>>
                 /\ ~launches[l].closed
        /\ launches[l].called # "none" => FPanicked(l)
        /\ launches[l].closed => launches[l].pc = "exit"

\* C16: the Go method and the one-shot Go do not block and do not wait
\* for the goroutine they spawn.  Whatever the launches that exist are
\* doing, a further call is possible while the process runs; and the step
\* in which a call returns its channel leaves the work not yet ended,
\* the channel open and empty, and every other launch where it was.
C16_GoDoesNotBlock ==
    /\ []((Alive /\ Len(launches) < MaxLaunch)
            => /\ \A t \in Tasks : ENABLED GoMethod(t, MaxLaunch)
               /\ Len(tasks) < MaxTasks
                     => ENABLED Go(MaxTasks, MaxLaunch))
    /\ [][\A l \in DOMAIN launches' \ DOMAIN launches :
             /\ launches'[l].pc = "f"
             /\ launches'[l].r = NoPanic
             /\ launches'[l].buf = <<>>
             /\ ~launches'[l].closed
             /\ \A k \in DOMAIN launches : launches'[k] = launches[k]
             /\ UNCHANGED <<defaultRecoverFunc, protoValue, escaped>>]_vars

\* C16 witness: Go has returned the channel of a launch whose work has
\* not ended, and the caller went on to call SetDefaultRecoverFunc.
C16_Witness ==
    \E l \in Launches :
        /\ launches[l].pc = "f"
        /\ tasks[launches[l].g].rf = BuiltinRf
        /\ defaultRecoverFunc = CustomRf

\* What a receive from the channel of launch l yields now, if it does not
\* block: the buffered error, or nil from the closed and drained channel.
NextRead(l) ==
    IF launches[l].buf # <<>> THEN Head(launches[l].buf) ELSE NilError

\* C17 (as claimed): once the goroutine of a launch has ended, a receive
\* never blocks, and a receive does not change what a receive yields: the
\* consumer gets the same terminal state, nil or the same failure, however
\* many times it reads.
C17_RereadSameTerminalState ==
    /\ [](\A l \in Launches :
             launches[l].pc = "exit" => CanRecv(launches[l]))
    /\ [][\A l \in DOMAIN launches :
             (/\ launches[l].pc = "exit"
              /\ Len(launches'[l].recvd) > Len(launches[l].recvd))
             => /\ launches'[l].recvd[Len(launches'[l].recvd)].err
                      = NextRead(l)
                /\ NextRead(l)' = NextRead(l)]_vars

\* C17 (amended): once the goroutine of a launch has ended, a receive
\* never blocks; the channel holds at most one error; a receive yields the
\* buffered error if there is one and nil otherwise, and every receive
\* after it yields nil: a failure is delivered to one receive only.
C17_RereadYieldsNil ==
    /\ [](\A l \in Launches :
             launches[l].pc = "exit"
             => CanRecv(launches[l]) /\ Len(launches[l].buf) <= DoneCap)
    /\ [][\A l \in DOMAIN launches :
             (/\ launches[l].pc = "exit"
              /\ Len(launches'[l].recvd) > Len(launches[l].recvd))
             => /\ launches'[l].recvd[Len(launches'[l].recvd)].err
                      = NextRead(l)
                /\ NextRead(l)' = NilError
                /\ launches'[l].pc = "exit"]_vars

\* C17 witness: after the goroutine has ended, the consumer has received
\* the failure and then, from a second receive, nil.
C17_Witness ==
    \E l \in Launches :
        /\ launches[l].pc = "exit"
        /\ Len(launches[l].recvd) = 2
        /\ launches[l].recvd[1].err = ProtoRef(ErrPanicRecovered)
        /\ launches[l].recvd[2].err = NilError

\* C18: SetDefaultRecoverFunc(h) installs h: after the call
\* GetDefaultRecoverFunc returns h.  GetDefaultRecoverFunc returns the
\* installed handler and changes nothing.  Every task New or the one-shot
\* Go constructs stores the handler installed at that moment: after
\* SetDefaultRecoverFunc(saved) that is the saved handler again.
C18_DefaultSetGetRestore ==
    [][/\ \A h \in Handlers :
             SetDefaultRecoverFunc(h) => defaultRecoverFunc' = h
       /\ GetDefaultRecoverFunc
             => /\ saved' = defaultRecoverFunc
                /\ UNCHANGED <<defaultRecoverFunc, tasks, launches>>
       /\ (saved # NoSaved /\ SetDefaultRecoverFunc(saved))
             => defaultRecoverFunc' = saved /\ saved' = saved
       /\ \A t \in DOMAIN tasks' \ DOMAIN tasks :
             /\ tasks'[t].rf = defaultRecoverFunc
             /\ defaultRecoverFunc = saved => tasks'[t].rf = saved]_vars

\* C18 witness: a caller saved the built-in default, installed a custom
\* handler, constructed a task, restored the saved handler and constructed
\* a second task: the first stores the custom handler, the second the
\* saved one.
C18_Witness ==
    /\ Len(tasks) = 2
    /\ saved = BuiltinRf
    /\ tasks[1].rf = CustomRf
    /\ tasks[2].rf = saved
    /\ defaultRecoverFunc = saved

\* The handler of the last SetDefaultRecoverFunc call that has returned
\* (the initial handler if there was none).
LatestSet ==
    IF pending # <<>> THEN pending[Len(pending)] ELSE defaultRecoverFunc

\* C19 (as claimed): the package default behaves as an atomically replaced
\* slot with last-writer-wins: once the SetDefaultRecoverFunc calls made so
\* far have returned, New, the one-shot Go and GetDefaultRecoverFunc
\* capture the handler of the last of them, whichever goroutine made it.
C19_LastWriterWins ==
    [][/\ \A t \in DOMAIN tasks' \ DOMAIN tasks : tasks'[t].rf = LatestSet
       /\ GetDefaultRecoverFunc => saved' = LatestSet]_vars

\* C20: every launch calls the work exactly once: never more than once,
\* and once as soon as the goroutine has left line 36.  No receive of the
\* consumer returns, and nothing is sent on done or closed, before the
\* work has ended.
C20_WorkOnceBeforeReceive ==
    \A l \in Launches :
        /\ launches[l].fCalls <= 1
        /\ launches[l].pc # "f" => launches[l].fCalls = 1
        /\ launches[l].pc = "f"
              => /\ launches[l].fCalls = 0
                 /\ launches[l].recvd = <<>>
                 /\ ~CanRecv(launches[l])
        /\ launches[l].recvd # <<>> => launches[l].fCalls = 1

\* C20 witness: the work returned normally and the consumer's receive has
\* returned after it.
C20_Witness ==
    \E l \in Launches :
        /\ FReturned(l)
        /\ launches[l].fCalls = 1
        /\ launches[l].recvd # <<>>

\* C21: Error() of either prototype returns the bare message when no
\* value is attached and the message, ": " and the formatted value when
\* one is; after WithValue(nil) it returns the bare message again.
C21_ErrorRendering ==
    [][\A p \in Prototypes :
          /\ CallError(p)
                => /\ protoValue[p] = NoValue => rendered' = <<Message(p)>>
                   /\ protoValue[p] # NoValue
                         => rendered' = <<Message(p), ": ",
                                          protoValue[p].src, protoValue[p].n>>
          /\ CallWithValue(p, NoValue) => Error(p)' = <<Message(p)>>]_vars

\* C21 witness: a prototype that carried a value was given nil by
\* WithValue(nil) and rendered as its bare message, while the other
\* prototype still carries a value.
C21_Witness ==
    /\ protoValue[ErrPanicRecovered] = NoValue
    /\ rendered = <<Message(ErrPanicRecovered)>>
    /\ protoValue[ErrRecoverFuncPanicRecovered] = RfPanic(1)

\* C22 (as claimed): in every launch the deferred function goes on to call
\* the stored recover function exactly when the work panicked, whatever the
\* payload, and the stored function is not nil; a recover function is
\* invoked at most once per launch, it is the stored one, and it works on
\* the value recover() returned and on the launch's own channel: the
\* built-in function attaches that value, a custom function builds its
\* error from it, and a step of the recover function of one launch leaves
\* every other launch as it was.
C22_RecoverFuncInvokedOnce ==
    [][\A l \in DOMAIN launches :
          LET L == launches[l]
              M == launches'[l]
          IN  /\ (L.pc = "deferred" /\ M.pc # "deferred")
                    => ((M.pc = "call")
                          <=> /\ (L.r # NoPanic \/ L.fPanicNil)
                              /\ tasks[L.g].rf # NilRf)
              /\ (M.pc = "call" /\ L.pc # "call") => L.pc = "deferred"
              /\ M.called # L.called
                    => /\ L.called = "none"
                       /\ L.pc = "call"
                       /\ L.r # NoPanic
                       /\ M.called = tasks[L.g].rf
                       /\ M.pc = M.called
              /\ (L.pc = BuiltinRf /\ M.pc # L.pc)
                    => protoValue'[ErrPanicRecovered] = L.r
              /\ (L.pc \in {CustomRf, "builtinSend"}
                    /\ Len(M.sent) > Len(L.sent))
                    => /\ M.sent[Len(M.sent)] \in
                             {OwnError(L.r), ProtoRef(ErrPanicRecovered)}
                       /\ M.buf = Append(L.buf, M.sent[Len(M.sent)])
              /\ (L.pc \in {BuiltinRf, CustomRf, "builtinSend"} /\ M # L)
                    => \A k \in DOMAIN launches \ {l} :
                          launches'[k] = launches[k]]_vars

\* C23 (as claimed): a panic is detected whatever its payload.  When the
\* work ended with panic(nil) and a recover function is stored, the
\* deferred function goes on to call it; and when a recover function
\* ended with a panic, nil payload included, and the goroutine went on to
\* close done, ErrRecoverFuncPanicRecovered has been sent.
C23_NilPanicDetected ==
    /\ [](\A l \in Launches :
             (launches[l].rfEnd = "panic"
                /\ launches[l].pc \in {"close", "exit"})
             => \E i \in DOMAIN launches[l].sent :
                   launches[l].sent[i] = ProtoRef(ErrRecoverFuncPanicRecovered))
    /\ [][\A l \in DOMAIN launches :
             (/\ launches[l].pc = "deferred"
              /\ launches'[l].pc # "deferred"
              /\ launches[l].fPanicNil
              /\ tasks[launches[l].g].rf # NilRf)
             => launches'[l].pc = "call"]_vars

\* C24 (as claimed): the recover function that handles the panic of a
\* launch is fixed when Go is called: while the work of a launch is still
\* running, no step changes the recover function that launch will invoke.
C24_HandlerFixedAtGo ==
    [][\A l \in DOMAIN launches :
          launches[l].pc = "f"
          => StoredRf(launches[l])' = StoredRf(launches[l])]_vars

\* Launches l and k are two runs of the same task.
SameTaskRuns(l, k) == l # k /\ launches[l].g = launches[k].g

\* C25 (as claimed): when Go is called more than once on a task, every
\* run has a channel of its own: a step changes the channel and the
\* goroutine state of one run only, what is sent on the channel of a run
\* is an error built from the payload of that run or one of the two
\* prototypes, and the channel of each run is closed by at most one
\* close(done), and by exactly one when its goroutine has ended.
C25_RunsDoNotInterfere ==
    /\ [](\A l, k \in Launches :
             SameTaskRuns(l, k)
             => /\ launches[l].closeCalls <= 1
                /\ launches[l].pc = "exit" => launches[l].closeCalls = 1
                /\ launches[l].pc # "crash"
                /\ \A i \in DOMAIN launches[l].sent :
                      launches[l].sent[i] \in
                         {OwnError(FPanic(l)), ProtoRef(ErrPanicRecovered),
                          ProtoRef(ErrRecoverFuncPanicRecovered)})
    /\ [][\A l, k \in DOMAIN launches :
             (SameTaskRuns(l, k) /\ launches'[l] # launches[l])
             => launches'[k] = launches[k]]_vars

\* C26 (as claimed): a failure a consumer has received is stable: what it
\* reports now is what it reported when it was received, whatever
\* launches and panics came later.
C26_ReceivedFailureStable ==
    \A l \in Launches :
        \A i \in DOMAIN launches[l].recvd :
            Observe(launches[l].recvd[i].err) = Seen(l, i)

C28_OneSendPerLaunch ==
    \A x \in SvRoutines :
        sv.sends[x] >= 1 => sv.pc[x] \notin {"send167", "send164"}

\* C29 (as claimed): reflection variant.  Every failure in the spawned
\* routine, Run returning no function, a wrong number of params or a panic
\* of the function, is recovered there and passed exactly once to Recover:
\* a routine past its deferred test has called Recover once if a failure
\* arose and never otherwise.  No step of a routine raises a panic in the
\* caller of Go; only Go with a fn that is neither a GoRoutiner nor a
\* function does, and that call starts no goroutine.
C29_FailuresPassedToRecover ==
    /\ [](\A i \in DOMAIN rv.runs :
            LET g == rv.runs[i]
            IN  /\ g.recovers <= 1
                /\ g.pc \in {"recover", "exit", "crash"}
                      => (g.recovers = 1 <=> g.fail # "none"))
    /\ [][/\ rv.raised' # rv.raised
               => /\ rv.runs' = rv.runs
                  /\ \E run \in {"func", "other"} :
                     \E numIn \in 0..MaxParams : \E params \in 0..MaxParams :
                     \E rec \in RvRecoverFuncs :
                         RvGo("other", run, numIn, params, rec)
          /\ (\E i \in DOMAIN rv.runs :
                 routine(i) \/ RvDeferred(i) \/ Recover(i))
               => rv.raised' = rv.raised
          /\ Len(rv.runs') > Len(rv.runs) => rv.raised' = rv.raised]_vars

\* C30: reflection variant.  Nothing guards the call of Recover: when a
\* failure was passed to a recover function that panics, a panicking
\* custom one or a nil RecFn, the panic leaves the goroutine and ends the
\* process, and the process ends in no other way.
C30_NoDoubleFaultGuard ==
    /\ \A i \in DOMAIN rv.runs :
          LET g == rv.runs[i]
          IN  /\ (g.recovers = 1 /\ g.pc # "recover"
                    /\ g.rec \in {"panics", RvNilRecFn})
                    => (g.pc = "crash" /\ rv.crashed)
              /\ g.pc = "crash"
                    => (g.recovers = 1 /\ g.rec \in {"panics", RvNilRecFn})
    /\ rv.crashed <=> \E i \in DOMAIN rv.runs : rv.runs[i].pc = "crash"

\* C30 witness: the function run by Go panicked, the default recover
\* function set by SetDefaultRecoverFunc panicked in turn, and the process
\* ended.
C30_Witness ==
    /\ rv.def = "panics"
    /\ \E i \in DOMAIN rv.runs :
          /\ rv.runs[i].fail = "panic"
          /\ rv.runs[i].rec = "panics"
          /\ rv.runs[i].pc = "crash"
    /\ rv.crashed

====
